---- MODULE Spec2Model ----
(***************************************************************************)
(* Receipts ingestion API (Stripe + Square): the in-memory receipt store,  *)
(* the Square dedupe ledger, the SQLite projection and the handlers that   *)
(* reconcile webhook deliveries into receipts (src/main.py).               *)
(***************************************************************************)
EXTENDS Integers, Sequences, FiniteSets, TLC

(* ------------------------------------------------------------------ *)
(* Bounds of the model                                                  *)
(* ------------------------------------------------------------------ *)
\* largest number of receipts the store is allowed to grow to
MaxTx == 2
\* last value of the wall clock (time.time()), which starts at 1
MaxTime == 2

(* ------------------------------------------------------------------ *)
(* Python values                                                        *)
(* ------------------------------------------------------------------ *)
\* Python's None where a string is expected
None == "None"
\* Python's None where a dict is expected
NoneRec == [isNone |-> TRUE]

\* truthiness of a string-or-None value (None and "" are falsy)
Truthy(s) == s \notin {None, ""}

\* a or b
PyOr(a, b) == IF Truthy(a) THEN a ELSE b

\* a decimal number with two places, as the float n / 100.0
Dec(n) == [whole |-> n \div 100, frac |-> n % 100]

Positive(d) == d.whole > 0 \/ d.frac > 0

\* an amount_money value: kind "int" carries an integer amount, kind "none"
\* has no amount key, kind "str" carries a non-numeric amount
Money(k, a, c) == [kind |-> k, amount |-> a, currency |-> c]

\* _money_to_float: (amount or 0) / 100.0, and 0.0 on any exception
\* (money is None or not a dict, amount is not a number)
_money_to_float(money) ==
    IF money = NoneRec THEN Dec(0)
    ELSE IF money.kind = "int" THEN Dec(money.amount)
    ELSE Dec(0)

\* str.upper() on the currency codes that occur
Upper(s) ==
    CASE s = "usd" -> "USD"
      [] s = "eur" -> "EUR"
      [] OTHER -> s

\* float(quantity) with the fallback 1.0 of the except branch
ToFloat(q) ==
    CASE q = "1" -> 1
      [] q = "2" -> 2
      [] q = "3" -> 3
      [] OTHER -> 1

(* ------------------------------------------------------------------ *)
(* The Square API as the handlers see it                                *)
(* ------------------------------------------------------------------ *)
OrderIds == {"O1", "O2"}

LineItem(name, q, money, sku, cat) ==
    [name |-> name, quantity |-> q, base_price_money |-> money,
     sku |-> sku, catalog_object_id |-> cat]

\* the catalog object GET /v2/catalog/object/{id} answers with
CatalogObject == [item_variation_data |-> [sku |-> "SKU-CAT"]]

\* orders GET /v2/orders/{id} can answer with
OrderDetailed(oid) ==
    [id |-> oid,
     line_items |-> << LineItem("coffee", "2", Money("int", 350, "usd"), "SKU-1", None),
                       LineItem("bagel", None, Money("int", 300, "usd"), "SKU-2", None) >>,
     fulfillments |-> << >>]

OrderShipped(oid) ==
    [id |-> oid,
     line_items |-> << >>,
     fulfillments |-> << [shipment_details |->
                            [line_items |-> << LineItem("mug", "x", NoneRec, None, "CAT-1") >>]] >>]

OrderBare(oid) == [id |-> oid, line_items |-> << >>, fulfillments |-> << >>]

RemoteOrders(oid) ==
    IF oid = "O1" THEN {OrderDetailed(oid)}
    ELSE {OrderShipped(oid), OrderBare(oid)}

\* one outcome of the enrichment calls a handler makes: the answer of
\* _square_get_order (NoneRec on error, timeout or a body without "order") and
\* the answer of _square_get_catalog_object (NoneRec likewise)
NoEnrichment == [order |-> NoneRec, catalog |-> NoneRec]

LineItemsOf(o) ==
    IF o.line_items # << >> THEN o.line_items
    ELSE IF o.fulfillments # << >> THEN o.fulfillments[1].shipment_details.line_items
    ELSE << >>

NeedsCatalog(o) ==
    \E k \in 1..Len(LineItemsOf(o)) :
        ~Truthy(LineItemsOf(o)[k].sku) /\ Truthy(LineItemsOf(o)[k].catalog_object_id)

ApiOutcomes(oid) ==
    {NoEnrichment}
    \cup {[order |-> o, catalog |-> c] :
            o \in RemoteOrders(oid),
            c \in {NoneRec, CatalogObject}}

\* the outcomes that differ for the handler: the catalog is asked only for a
\* line item that has no sku and names a catalog object
ApiChoices(oid, tok) ==
    IF ~Truthy(oid) \/ ~Truthy(tok) THEN {NoEnrichment}
    ELSE {a \in ApiOutcomes(oid) :
            a.catalog # NoneRec => (a.order # NoneRec /\ NeedsCatalog(a.order))}

\* the SKU resolution of _order_to_items for one line item
ResolveSku(li, catalog) ==
    IF ~Truthy(li.sku) /\ Truthy(li.catalog_object_id) /\ catalog # NoneRec
    THEN PyOr(catalog.item_variation_data.sku, None)
    ELSE PyOr(li.sku, None)

ItemOf(li, catalog) ==
    [sku |-> ResolveSku(li, catalog),
     name |-> PyOr(li.name, ""),
     quantity |-> ToFloat(PyOr(li.quantity, "1")),
     unit_price |-> _money_to_float(li.base_price_money)]

ItemsOf(lis, catalog) == [k \in 1..Len(lis) |-> ItemOf(lis[k], catalog)]

RECURSIVE ShipItems(_, _)
ShipItems(fs, catalog) ==
    IF fs = << >> THEN << >>
    ELSE ItemsOf(Head(fs).shipment_details.line_items, catalog)
         \o ShipItems(Tail(fs), catalog)

\* _order_to_items: order.line_items first, the fulfillments otherwise
_order_to_items(order, catalog) ==
    IF order.line_items # << >> THEN ItemsOf(order.line_items, catalog)
    ELSE ShipItems(order.fulfillments, catalog)

(* ------------------------------------------------------------------ *)
(* Webhook deliveries                                                   *)
(* ------------------------------------------------------------------ *)
EventIds == {"e1", "e2", "e3"}
MerchantIds == {"M1"}
SigningKeys == {"sqkey", "forged"}
NotificationUrl == "https://host/api/webhooks/square"

Payment(id, oid, aoid, money) ==
    [id |-> id, order_id |-> oid, associated_order_id |-> aoid, amount_money |-> money]

\* data.object of a Square notification: a dict that may hold a payment and
\* may hold an order, or something that is no dict
Obj(payment, order) == [isdict |-> TRUE, payment |-> payment, order |-> order]
ObjNoDict == [isdict |-> FALSE, payment |-> NoneRec, order |-> NoneRec]

SquarePayload(type, eid, mid, obj) ==
    [type |-> type, event_id |-> eid, merchant_id |-> mid, object |-> obj]

\* the notifications Square sends; a notification keeps its event_id over
\* redeliveries, and some carry none
SquareEvents ==
    { [type |-> "payment.created", event_id |-> "e1",
       object |-> Obj(Payment("P1", "O1", None, Money("int", 1000, "usd")), NoneRec)],
      [type |-> "payment.updated", event_id |-> None,
       object |-> Obj(Payment("P1", None, None, NoneRec), NoneRec)],
      [type |-> "payment.updated", event_id |-> None,
       object |-> Obj(Payment("P1", "O2", None, Money("str", 0, None)), NoneRec)],
      [type |-> "payment.created", event_id |-> None,
       object |-> Obj(Payment("P2", None, "O1", Money("int", 2550, "eur")), NoneRec)],
      [type |-> "order.updated", event_id |-> "e2", object |-> Obj(NoneRec, [id |-> "O1"])],
      [type |-> "order.updated", event_id |-> None, object |-> Obj(NoneRec, [id |-> "O2"])],
      [type |-> "order.updated", event_id |-> None, object |-> Obj(NoneRec, [id |-> None])],
      [type |-> "refund.created", event_id |-> "e3", object |-> Obj(NoneRec, NoneRec)],
      [type |-> "payment.created", event_id |-> None, object |-> Obj(NoneRec, NoneRec)],
      [type |-> "payment.updated", event_id |-> None, object |-> ObjNoDict] }

\* the JSON bodies delivered to /api/webhooks/square; NoneRec is a body that
\* does not parse to a dict
SquarePayloads ==
    {NoneRec}
    \cup {SquarePayload(ev.type, ev.event_id, mid, ev.object) :
            ev \in SquareEvents, mid \in MerchantIds}

\* HMAC-SHA256(key, url + body), base64: a tag of its three inputs
_square_expected_signature(key, url, body) == <<key, url, body>>

\* the x-square-hmacsha256-signature header: absent, or a signature of the body
SquareSignatures(payload) ==
    {<< >>} \cup {_square_expected_signature(k, NotificationUrl, payload) : k \in SigningKeys}

(* ------------------------------------------------------------------ *)
(* State                                                                *)
(* ------------------------------------------------------------------ *)
VARIABLES
    transactions,                  \* the receipt store (a list of dicts)
    processed_square_event_ids,    \* the dedupe ledger
    receipt_items,                 \* the rows of the SQLite table
    SQUARE_ACCESS_TOKEN,           \* the token enrichment calls use
    square_oauth_tokens,           \* merchant_id -> OAuth token response
    SQUARE_WEBHOOK_SIGNATURE_KEY,  \* environment, fixed at start
    STRIPE_WEBHOOK_SECRET,         \* environment, fixed at start
    now,                           \* int(time.time())
    request,                       \* the request being answered, with what its calls met
    response,                      \* the answer to it, until it is sent
    tasks                          \* the runs of square_webhook on the event loop

vars == <<transactions, processed_square_event_ids, receipt_items, SQUARE_ACCESS_TOKEN,
          square_oauth_tokens, SQUARE_WEBHOOK_SIGNATURE_KEY, STRIPE_WEBHOOK_SECRET,
          now, request, response, tasks>>

Response(status, body) == [status |-> status, body |-> body]

\* no request is being answered
NoRequest == [op |-> "none"]
NoResponse == Response(0, "none")
Idle == request = NoRequest /\ response = NoResponse

\* the coroutines of square_webhook that the event loop can hold at a time
Tasks == {"t1", "t2"}

\* a slot of the event loop that runs no coroutine
IdleTask ==
    [pc |-> "idle", payload |-> NoneRec, signature |-> << >>, response |-> NoResponse,
     overlap |-> {}]

Init ==
    /\ transactions = << >>
    /\ processed_square_event_ids = {}
    /\ receipt_items = {}
    /\ SQUARE_ACCESS_TOKEN = None
    /\ square_oauth_tokens = << >>
    /\ SQUARE_WEBHOOK_SIGNATURE_KEY = "sqkey"
    /\ STRIPE_WEBHOOK_SECRET = "whsec"
    /\ now = 1
    /\ request = NoRequest
    /\ response = NoResponse
    /\ tasks = [k \in Tasks |-> IdleTask]

(* ------------------------------------------------------------------ *)
(* _db_write_tx                                                         *)
(* ------------------------------------------------------------------ *)
\* the row written for a receipt that has no items yet
PlaceholderItem == [sku |-> None, name |-> "(no items yet)", quantity |-> 0, unit_price |-> Dec(0)]

\* the rows INSERTed for tx, one per line item; n stands for the fresh uuid of
\* a row, which tells equal rows of one receipt apart
DbRows(tx, clock) ==
    LET items == IF tx.items = << >> THEN << PlaceholderItem >> ELSE tx.items
    IN  {[user_id |-> PyOr(tx.user_id, "demo_user"),
          merchant |-> tx.merchant,
          payment_id |-> PyOr(tx.payment_id, ""),
          order_id |-> PyOr(tx.meta.square_order_id, ""),
          sku |-> items[k].sku,
          item_name |-> items[k].name,
          quantity |-> items[k].quantity,
          unit_price |-> items[k].unit_price,
          currency |-> tx.currency,
          total |-> tx.total,
          ts |-> IF tx.timestamp # 0 THEN tx.timestamp ELSE clock,
          n |-> k] : k \in 1..Len(items)}

\* DELETE the rows of (user_id, merchant, payment_id), INSERT the new ones, commit
_db_write_tx(rows, tx, clock) ==
    {r \in rows : ~(/\ r.user_id = PyOr(tx.user_id, "demo_user")
                    /\ r.merchant = tx.merchant
                    /\ r.payment_id = PyOr(tx.payment_id, ""))}
    \cup DbRows(tx, clock)

(* ------------------------------------------------------------------ *)
(* square_webhook                                                       *)
(* ------------------------------------------------------------------ *)
\* a faulty signature check: every delivery passes
SignatureUnchecked(payload, provided) == TRUE

\* the signature check: skipped when no key is configured
SignatureOk(payload, provided) ==
    \/ ~Truthy(SQUARE_WEBHOOK_SIGNATURE_KEY)
    \/ _square_expected_signature(SQUARE_WEBHOOK_SIGNATURE_KEY, NotificationUrl, payload) = provided

\* the per-merchant OAuth token replaces the global token
SelectToken(st, payload) ==
    IF /\ Truthy(payload.merchant_id)
       /\ payload.merchant_id \in DOMAIN square_oauth_tokens
    THEN PyOr(square_oauth_tokens[payload.merchant_id].access_token, st.token)
    ELSE st.token

\* the dedupe gate
IsDuplicate(st, event_id) == Truthy(event_id) /\ event_id \in st.seen

MarkSeen(st, event_id) ==
    IF Truthy(event_id) THEN st.seen \cup {event_id}
    ELSE st.seen

\* _square_get_order: None without an order id, else what the API answers
_square_get_order(order_id, api) == IF ~Truthy(order_id) THEN NoneRec ELSE api.order

\* the items of a fetched order, [] when the fetch gave no order
FetchedItems(order_full, api) ==
    IF order_full # NoneRec THEN _order_to_items(order_full, api.catalog) ELSE << >>

\* faulty item merges: the incoming list always replaces the stored one; the
\* test on the incoming list is inverted
MergeItemsAlways(old, items) == items
MergeItemsInverted(old, items) == IF items = << >> THEN items ELSE old

\* if items: t["items"] = items
MergeItems(old, items) == IF items # << >> THEN items ELSE old

\* if order_full is not None: existing["meta"]["square_order"] = order_full
MergeSquareOrder(old, order_full) == IF order_full # NoneRec THEN order_full ELSE old

\* a faulty order id merge: the incoming value is stored even when it is None
MergeOrderIdOverwrite(old, order_id) == order_id

\* existing["meta"]["square_order_id"] = order_id or existing["meta"].get("square_order_id")
MergeOrderId(old, order_id) == PyOr(order_id, old)

\* the receipts are Square's and linked to order_id
LinkedTo(t, order_id) == t.merchant = "square" /\ t.meta.square_order_id = order_id

\* a faulty lookup: it reads a top-level order_id key, which no receipt has
FindByTopLevelOrderId(txs, order_id) ==
    LET hits == {i \in 1..Len(txs) :
                    /\ txs[i].merchant = "square"
                    /\ "order_id" \in DOMAIN txs[i]
                    /\ txs[i].order_id = order_id}
    IN  IF hits = {} THEN 0 ELSE CHOOSE i \in hits : \A j \in hits : i <= j

\* the first receipt of the store linked to order_id (0: none)
FindByOrderId(txs, order_id) ==
    LET hits == {i \in 1..Len(txs) : LinkedTo(txs[i], order_id)}
    IN  IF hits = {} THEN 0 ELSE CHOOSE i \in hits : \A j \in hits : i <= j

\* a faulty lookup: it finds no receipt
FindNoTx(txs, payment_id) == 0

\* _find_square_tx_by_payment_id: the newest Square receipt of payment_id (0: none)
_find_square_tx_by_payment_id(txs, payment_id) ==
    LET hits == {i \in 1..Len(txs) :
                    txs[i].merchant = "square" /\ txs[i].payment_id = payment_id}
    IN  IF hits = {} THEN 0 ELSE CHOOSE i \in hits : \A j \in hits : i >= j

\* a faulty id: the same for every receipt
NewIdReused(txs) == 1

\* str(uuid.uuid4()): an id no receipt of the store has
NewId(txs) == Len(txs) + 1

\* the order.updated merge into receipt t
MergeOrderEvent(t, items, order_full, payload) ==
    [t EXCEPT !.items = MergeItems(@, items),
              !.meta = [@ EXCEPT !.square_order = order_full,
                                 !.square_event_type = payload.type,
                                 !.square_event_id = payload.event_id]]

\* a faulty payment merge: it also stores the incoming total and currency
MergePaymentEventWithTotal(t, items, order_full, order_id, payload) ==
    [t EXCEPT !.items = MergeItems(@, items),
              !.total = _money_to_float(payload.object.payment.amount_money),
              !.meta = [@ EXCEPT !.square_order = MergeSquareOrder(@, order_full),
                                 !.square_event_type = payload.type,
                                 !.square_event_id = payload.event_id,
                                 !.square_order_id = MergeOrderId(@, order_id)]]

\* the payment.* merge into the existing receipt
MergePaymentEvent(t, items, order_full, order_id, payload) ==
    [t EXCEPT !.items = MergeItems(@, items),
              !.meta = [@ EXCEPT !.square_order = MergeSquareOrder(@, order_full),
                                 !.square_event_type = payload.type,
                                 !.square_event_id = payload.event_id,
                                 !.square_order_id = MergeOrderId(@, order_id)]]

\* the receipt a payment.* event creates
NewSquareTx(txs, payment, items, order_full, order_id, payload, clock) ==
    [id |-> NewId(txs),
     user_id |-> "demo_user",
     merchant |-> "square",
     payment_id |-> PyOr(payment.id, ""),
     timestamp |-> clock,
     currency |-> Upper(PyOr(IF payment.amount_money = NoneRec THEN None
                              ELSE payment.amount_money.currency, "USD")),
     total |-> _money_to_float(payment.amount_money),
     items |-> items,
     meta |-> [square_event_type |-> payload.type,
               square_event_id |-> payload.event_id,
               square_order_id |-> order_id,
               square_payment |-> payment,
               square_order |-> order_full]]

\* what a handler leaves behind: the store, the ledger, the table, the token
\* and the HTTP answer
Outcome(txs, seen, rows, tok, resp) ==
    [transactions |-> txs, seen |-> seen, rows |-> rows, token |-> tok, response |-> resp]

\* the order.updated branch
OrderUpdated(st, payload, tok, seen, api) ==
    LET order == payload.object.order
        order_id == IF order = NoneRec THEN None ELSE order.id
        order_full == IF Truthy(tok) THEN _square_get_order(order_id, api) ELSE NoneRec
        items == FetchedItems(order_full, api)
        i == FindByOrderId(st.transactions, order_id)
    IN  IF order = NoneRec \/ ~Truthy(order_id)
        THEN Outcome(st.transactions, seen, st.rows, tok, Response(200, "ignored"))
        ELSE IF i # 0
        THEN Outcome([st.transactions EXCEPT ![i] = MergeOrderEvent(@, items, order_full, payload)],
                     seen, st.rows, tok, Response(200, "updated_existing"))
        ELSE Outcome(st.transactions, seen, st.rows, tok, Response(200, "no_matching_tx"))

\* the payment.created / payment.updated branch; dbok: _db_write_tx commits
\* (it raises otherwise, after the store was changed)
PaymentEvent(st, payload, tok, seen, api, dbok) ==
    LET payment == payload.object.payment
        order_id == IF payment = NoneRec THEN None
                    ELSE PyOr(payment.order_id, payment.associated_order_id)
        order_full == IF Truthy(order_id) /\ Truthy(tok)
                      THEN _square_get_order(order_id, api) ELSE NoneRec
        items == FetchedItems(order_full, api)
        payment_id == PyOr(payment.id, "")
        i == _find_square_tx_by_payment_id(st.transactions, payment_id)
        merged == [st.transactions EXCEPT ![i] =
                      MergePaymentEvent(@, items, order_full, order_id, payload)]
        tx == NewSquareTx(st.transactions, payment, items, order_full, order_id, payload, now)
    IN  IF payment = NoneRec
        THEN Outcome(st.transactions, seen, st.rows, tok, Response(200, "ignored"))
        ELSE IF i # 0
        THEN IF dbok
             THEN Outcome(merged, seen, _db_write_tx(st.rows, merged[i], now), tok,
                          Response(200, "updated_existing"))
             ELSE Outcome(merged, seen, st.rows, tok, Response(500, "error"))
        ELSE IF dbok
             THEN Outcome(Append(st.transactions, tx), seen,
                          _db_write_tx(st.rows, tx, now), tok, Response(200, "created"))
             ELSE Outcome(Append(st.transactions, tx), seen, st.rows, tok,
                          Response(500, "error"))

\* the whole handler, from the signature check to the answer, on the store,
\* ledger, table and token of st
SquareHandler(st, payload, provided, api, dbok) ==
    LET unchanged(resp) == Outcome(st.transactions, st.seen, st.rows, st.token, resp)
    IN  IF ~SignatureOk(payload, provided) THEN unchanged(Response(401, "error"))
        ELSE IF payload = NoneRec THEN unchanged(Response(200, "ok"))
        ELSE
          LET tok == SelectToken(st, payload)
              seen == MarkSeen(st, payload.event_id)
          IN  IF IsDuplicate(st, payload.event_id)
              THEN Outcome(st.transactions, st.seen, st.rows, tok,
                           Response(200, "deduped_event"))
              ELSE IF ~payload.object.isdict
              THEN Outcome(st.transactions, seen, st.rows, tok, Response(200, "ok"))
              ELSE IF payload.type = "order.updated"
              THEN OrderUpdated(st, payload, tok, seen, api)
              ELSE IF payload.type \in {"payment.created", "payment.updated"}
              THEN PaymentEvent(st, payload, tok, seen, api, dbok)
              ELSE Outcome(st.transactions, seen, st.rows, tok, Response(200, "ignored"))

\* what the handler reads and writes, as it is now
Current ==
    Outcome(transactions, processed_square_event_ids, receipt_items, SQUARE_ACCESS_TOKEN,
            NoResponse)

\* the handler on the server's state
square_webhook(payload, provided, api, dbok) ==
    SquareHandler(Current, payload, provided, api, dbok)

\* the order id a delivery makes the handler fetch (None: no fetch)
EnrichmentOrderId(payload) ==
    IF payload = NoneRec \/ ~payload.object.isdict THEN None
    ELSE IF payload.type = "order.updated" /\ payload.object.order # NoneRec
    THEN payload.object.order.id
    ELSE IF payload.type \in {"payment.created", "payment.updated"}
            /\ payload.object.payment # NoneRec
    THEN PyOr(payload.object.payment.order_id, payload.object.payment.associated_order_id)
    ELSE None

\* the signature headers that make a difference: none is read without a key
SquareHeaders(payload) ==
    IF Truthy(SQUARE_WEBHOOK_SIGNATURE_KEY) THEN SquareSignatures(payload) ELSE {<< >>}

\* whether the delivery reaches _db_write_tx
WritesDb(payload) ==
    /\ payload # NoneRec
    /\ payload.object.isdict
    /\ payload.type \in {"payment.created", "payment.updated"}
    /\ payload.object.payment # NoneRec

\* the outcomes of the enrichment calls that the delivery can meet
SquareApiChoices(payload, provided) ==
    IF payload = NoneRec \/ ~SignatureOk(payload, provided)
       \/ IsDuplicate(Current, payload.event_id)
    THEN {NoEnrichment}
    ELSE ApiChoices(EnrichmentOrderId(payload), SelectToken(Current, payload))

\* one delivery to POST /api/webhooks/square, handled from start to end
SquareDelivery(payload, provided, api, dbok) ==
    LET out == square_webhook(payload, provided, api, dbok)
    IN  /\ Idle
        /\ Len(out.transactions) <= MaxTx
        /\ request' = [op |-> "square_webhook", payload |-> payload, signature |-> provided,
                       api |-> api, dbok |-> dbok]
        /\ transactions' = out.transactions
        /\ processed_square_event_ids' = out.seen
        /\ receipt_items' = out.rows
        /\ SQUARE_ACCESS_TOKEN' = out.token
        /\ response' = out.response
        /\ UNCHANGED <<tasks, square_oauth_tokens, SQUARE_WEBHOOK_SIGNATURE_KEY,
                       STRIPE_WEBHOOK_SECRET, now>>

\* POST /api/webhooks/square; dbs: whether the SQLite write can commit, fail
SquareWebhookWith(dbs) ==
    Idle /\ \E payload \in SquarePayloads :
    \E provided \in SquareHeaders(payload) :
    \E api \in SquareApiChoices(payload, provided) :
    \E dbok \in IF WritesDb(payload) THEN dbs ELSE {TRUE} :
        SquareDelivery(payload, provided, api, dbok)

SquareWebhook == SquareWebhookWith({TRUE})

(* ------------------------------------------------------------------ *)
(* stripe_webhook                                                       *)
(* ------------------------------------------------------------------ *)
\* an integer of a Stripe object, or None
Some(n) == [kind |-> "int", amount |-> n]
NoInt == [kind |-> "none", amount |-> 0]

\* (x or 0) / 100
Div100(x) == IF x.kind = "int" THEN Dec(x.amount) ELSE Dec(0)

StripeSession(id, ref, pi, created, cur, amount) ==
    [id |-> id, client_reference_id |-> ref, payment_intent |-> pi, created |-> created,
     currency |-> cur, amount_total |-> amount]

\* the events Stripe sends: a completed checkout and an event of another type
StripeEvents ==
    { [id |-> "evt_1", type |-> "checkout.session.completed",
       object |-> StripeSession("cs_1", "u2", "pi_1", 1, None, Some(1999))],
      [id |-> "evt_2", type |-> "payment_intent.succeeded",
       object |-> StripeSession("cs_1", "u2", "pi_1", 1, None, Some(1999))] }

\* the stripe-signature header: absent, or a signature of the body
StripeSignatures(event) == {<< >>} \cup {<<k, event>> : k \in {"whsec", "forged"}}

\* stripe.Webhook.construct_event: raises unless the header signs the payload
\* with the secret
ConstructEventOk(event, sig_header) == sig_header = <<STRIPE_WEBHOOK_SECRET, event>>

\* what stripe.checkout.Session.list_line_items answers: it raises ("raise") or
\* lists the line items
StripeLineItems ==
    { "raise",
      << [description |-> "ticket", quantity |-> 0,
          price |-> [unit_amount |-> Some(1999), product |-> "prod_1"]] >> }

StripeItemOf(li) ==
    [sku |-> PyOr(li.price.product, ""),
     name |-> PyOr(li.description, ""),
     quantity |-> IF li.quantity # 0 THEN li.quantity ELSE 1,
     unit_price |-> Div100(li.price.unit_amount)]

\* the receipt a completed checkout creates
NewStripeTx(txs, session, line_items) ==
    [id |-> NewId(txs),
     user_id |-> PyOr(session.client_reference_id, "demo_user"),
     merchant |-> "stripe",
     payment_id |-> session.payment_intent,
     timestamp |-> session.created,
     currency |-> Upper(PyOr(session.currency, "usd")),
     total |-> Div100(session.amount_total),
     items |-> [k \in 1..Len(line_items) |-> StripeItemOf(line_items[k])],
     meta |-> [stripe_session |-> session]]

\* the whole handler: the new store and the answer
stripe_webhook(event, sig_header, line_items) ==
    IF ~Truthy(STRIPE_WEBHOOK_SECRET)
    THEN [transactions |-> transactions, response |-> Response(500, "error")]
    ELSE IF ~ConstructEventOk(event, sig_header)
    THEN [transactions |-> transactions, response |-> Response(400, "error")]
    ELSE IF event.type = "checkout.session.completed"
    THEN IF line_items = "raise"
         THEN [transactions |-> transactions, response |-> Response(500, "error")]
         ELSE [transactions |-> Append(transactions, NewStripeTx(transactions, event.object, line_items)),
               response |-> Response(200, "ok")]
    ELSE [transactions |-> transactions, response |-> Response(200, "ok")]

\* the outcomes of list_line_items that the delivery can meet
StripeLineItemChoices(event, sig_header) ==
    IF /\ Truthy(STRIPE_WEBHOOK_SECRET)
       /\ ConstructEventOk(event, sig_header)
       /\ event.type = "checkout.session.completed"
    THEN StripeLineItems ELSE {"raise"}

\* one delivery to POST /webhooks/stripe
StripeDelivery(event, sig_header, line_items) ==
    LET out == stripe_webhook(event, sig_header, line_items)
    IN  /\ Idle
        /\ Len(out.transactions) <= MaxTx
        /\ request' = [op |-> "stripe_webhook", event |-> event, signature |-> sig_header,
                       line_items |-> line_items]
        /\ transactions' = out.transactions
        /\ response' = out.response
        /\ UNCHANGED <<tasks, processed_square_event_ids, receipt_items, SQUARE_ACCESS_TOKEN,
                       square_oauth_tokens, SQUARE_WEBHOOK_SIGNATURE_KEY,
                       STRIPE_WEBHOOK_SECRET, now>>

\* POST /webhooks/stripe
StripeWebhook ==
    Idle /\ \E event \in StripeEvents :
    \E sig_header \in StripeSignatures(event) :
    \E line_items \in StripeLineItemChoices(event, sig_header) :
        StripeDelivery(event, sig_header, line_items)

(* ------------------------------------------------------------------ *)
(* square_callback                                                      *)
(* ------------------------------------------------------------------ *)
\* the token response of POST /oauth2/token for a merchant
TokenResponse(m) == [merchant_id |-> m, access_token |-> "tok" \o m]

\* GET /square/callback: the token exchange raises (ok = FALSE: nothing is
\* stored, the answer is an error) or its answer is stored under the merchant
\* and becomes the token of the enrichment calls
SquareCallbackFor(data, ok) ==
    /\ Idle
    /\ request' = [op |-> "square_callback", data |-> data, ok |-> ok]
    /\ IF ok
       THEN /\ square_oauth_tokens' =
                   [m \in DOMAIN square_oauth_tokens \cup {PyOr(data.merchant_id, "unknown")} |->
                       IF m = PyOr(data.merchant_id, "unknown") THEN data
                       ELSE square_oauth_tokens[m]]
            /\ SQUARE_ACCESS_TOKEN' = data.access_token
            /\ response' = Response(200, "ok")
       ELSE /\ UNCHANGED <<square_oauth_tokens, SQUARE_ACCESS_TOKEN>>
            /\ response' = Response(500, "error")
    /\ UNCHANGED <<tasks, transactions, processed_square_event_ids, receipt_items,
                   SQUARE_WEBHOOK_SIGNATURE_KEY, STRIPE_WEBHOOK_SECRET, now>>

SquareCallback ==
    Idle /\ \E m \in MerchantIds : \E ok \in BOOLEAN : SquareCallbackFor(TokenResponse(m), ok)

(* ------------------------------------------------------------------ *)
(* square_backfill                                                      *)
(* ------------------------------------------------------------------ *)
\* the receipts the loop fetches an order for: Square receipts of user_id with
\* an order id that miss items or the stored order
NeedsBackfill(t, user_id) ==
    /\ t.user_id = user_id
    /\ t.merchant = "square"
    /\ Truthy(t.meta.square_order_id)
    /\ ~(t.items # << >> /\ t.meta.square_order # NoneRec)

\* a faulty loop body: it also resets the receipt's timestamp
BackfillOneRestamped(t, api) ==
    IF api.order # NoneRec
    THEN [t EXCEPT !.items = IF FetchedItems(api.order, api) # << >>
                             THEN FetchedItems(api.order, api) ELSE @,
                   !.meta = [@ EXCEPT !.square_order = api.order],
                   !.timestamp = 0]
    ELSE t

\* the body of the loop for a receipt that needs the backfill
BackfillOne(t, api) ==
    LET order_full == _square_get_order(t.meta.square_order_id, api)
    IN  IF order_full # NoneRec
        THEN [t EXCEPT !.items = MergeItems(@, FetchedItems(order_full, api)),
                       !.meta = [@ EXCEPT !.square_order = order_full]]
        ELSE t

\* the receipts counted as checked
Counted(t, user_id) == t.user_id = user_id /\ t.merchant = "square"

\* the loop over reversed(transactions) from index i down, with the counters
RECURSIVE BackfillLoop(_, _, _, _, _, _, _)
BackfillLoop(txs, i, checked, updated, user_id, limit, apis) ==
    IF i = 0 \/ checked >= limit
    THEN [transactions |-> txs, checked |-> checked, updated |-> updated]
    ELSE IF ~Counted(txs[i], user_id)
    THEN BackfillLoop(txs, i - 1, checked, updated, user_id, limit, apis)
    ELSE IF ~NeedsBackfill(txs[i], user_id) \/ apis[i].order = NoneRec
    THEN BackfillLoop(txs, i - 1, checked + 1, updated, user_id, limit, apis)
    ELSE BackfillLoop([txs EXCEPT ![i] = BackfillOne(@, apis[i])], i - 1,
                      checked + 1, updated + 1, user_id, limit, apis)

\* the outcomes of the enrichment calls of one run, per receipt
BackfillApiChoices(user_id) ==
    {apis \in [1..Len(transactions) ->
                 UNION {ApiOutcomes(o) : o \in OrderIds}] :
        \A i \in 1..Len(transactions) :
            apis[i] \in IF NeedsBackfill(transactions[i], user_id)
                        THEN ApiChoices(transactions[i].meta.square_order_id, SQUARE_ACCESS_TOKEN)
                        ELSE {NoEnrichment}}

\* one run of POST /api/square/backfill
BackfillRun(user_id, limit, apis) ==
    /\ Idle
    /\ request' = [op |-> "square_backfill", user_id |-> user_id, limit |-> limit,
                   apis |-> apis]
    /\ IF ~Truthy(SQUARE_ACCESS_TOKEN)
       THEN /\ response' = Response(500, "error")
            /\ UNCHANGED transactions
       ELSE LET out == BackfillLoop(transactions, Len(transactions), 0, 0, user_id, limit, apis)
            IN  /\ transactions' = out.transactions
                /\ response' = Response(200, "backfill")
    /\ UNCHANGED <<tasks, processed_square_event_ids, receipt_items, SQUARE_ACCESS_TOKEN,
                   square_oauth_tokens, SQUARE_WEBHOOK_SIGNATURE_KEY,
                   STRIPE_WEBHOOK_SECRET, now>>

Users == {"demo_user", "u2"}

SquareBackfill ==
    Idle /\ \E user_id \in Users :
    \E limit \in 0..MaxTx :
    \E apis \in BackfillApiChoices(user_id) :
        BackfillRun(user_id, limit, apis)

(* ------------------------------------------------------------------ *)
(* get_transactions                                                     *)
(* ------------------------------------------------------------------ *)
\* the receipts of the store that belong to user_id, in store order
ReceiptsOfUser(txs, user_id) ==
    LET OfUser(t) == t.user_id = user_id
    IN  SelectSeq(txs, OfUser)

\* GET /api/transactions: answers the receipts of user_id and changes nothing
GetTransactions ==
    Idle /\ \E user_id \in Users :
        /\ request' = [op |-> "get_transactions", user_id |-> user_id]
        /\ response' = Response(200, ReceiptsOfUser(transactions, user_id))
        /\ UNCHANGED <<tasks, transactions, processed_square_event_ids, receipt_items,
                       SQUARE_ACCESS_TOKEN, square_oauth_tokens,
                       SQUARE_WEBHOOK_SIGNATURE_KEY, STRIPE_WEBHOOK_SECRET, now>>

\* time passes
Tick ==
    /\ now < MaxTime
    /\ now' = now + 1
    /\ UNCHANGED <<tasks, transactions, processed_square_event_ids, receipt_items,
                   SQUARE_ACCESS_TOKEN, square_oauth_tokens, SQUARE_WEBHOOK_SIGNATURE_KEY,
                   STRIPE_WEBHOOK_SECRET, request, response>>

\* the answer is sent and the server is ready for the next request
Respond ==
    /\ ~Idle
    /\ request' = NoRequest
    /\ response' = NoResponse
    /\ UNCHANGED <<tasks, transactions, processed_square_event_ids, receipt_items,
                   SQUARE_ACCESS_TOKEN, square_oauth_tokens, SQUARE_WEBHOOK_SIGNATURE_KEY,
                   STRIPE_WEBHOOK_SECRET, now>>

Next ==
    SquareWebhook \/ StripeWebhook \/ SquareCallback \/ SquareBackfill \/ GetTransactions
    \/ Respond

Spec == Init /\ [][Next]_vars

(* ------------------------------------------------------------------ *)
(* square_webhook as coroutines of one event loop: a run can be suspended *)
(* at its two awaits only, and other runs go on while it is              *)
(* ------------------------------------------------------------------ *)
\* the notifications that arrive while others are being handled: two payment
\* events of payment P1 with their own event ids, a payment event of P2 and
\* an order event
RacingEvents ==
    { [type |-> "payment.created", event_id |-> "e1",
       object |-> Obj(Payment("P1", "O1", None, Money("int", 1000, "usd")), NoneRec)],
      [type |-> "payment.updated", event_id |-> "e4",
       object |-> Obj(Payment("P1", "O1", None, Money("int", 1000, "usd")), NoneRec)],
      [type |-> "payment.created", event_id |-> None,
       object |-> Obj(Payment("P2", None, "O1", Money("int", 2550, "eur")), NoneRec)],
      [type |-> "order.updated", event_id |-> "e2", object |-> Obj(NoneRec, [id |-> "O1"])] }

RacingPayloads ==
    {SquarePayload(ev.type, ev.event_id, mid, ev.object) :
        ev \in RacingEvents, mid \in MerchantIds}

\* the server accepts a request and starts a run of square_webhook, which
\* suspends at await request.body()
TaskAccept(k) ==
    /\ tasks[k].pc = "idle"
    /\ \E payload \in RacingPayloads :
       \E provided \in SquareHeaders(payload) :
          tasks' = [tasks EXCEPT ![k] = [pc |-> "body", payload |-> payload,
                                         signature |-> provided,
                                         response |-> NoResponse, overlap |-> {}]]
    /\ UNCHANGED <<transactions, processed_square_event_ids, receipt_items,
                   SQUARE_ACCESS_TOKEN, square_oauth_tokens, SQUARE_WEBHOOK_SIGNATURE_KEY,
                   STRIPE_WEBHOOK_SECRET, now, request, response>>

\* await request.body() returns; the run suspends at await request.json()
TaskReadBody(k) ==
    /\ tasks[k].pc = "body"
    /\ tasks' = [tasks EXCEPT ![k].pc = "json"]
    /\ UNCHANGED <<transactions, processed_square_event_ids, receipt_items,
                   SQUARE_ACCESS_TOKEN, square_oauth_tokens, SQUARE_WEBHOOK_SIGNATURE_KEY,
                   STRIPE_WEBHOOK_SECRET, now, request, response>>

\* await request.json() returns and the rest of the handler runs to its
\* return: it holds no await, and its calls to Square and SQLite block the
\* event loop. overlap: the runs that were suspended meanwhile.
TaskRun(k) ==
    /\ tasks[k].pc = "json"
    /\ \E api \in SquareApiChoices(tasks[k].payload, tasks[k].signature) :
          LET out == square_webhook(tasks[k].payload, tasks[k].signature, api, TRUE)
          IN  /\ Len(out.transactions) <= MaxTx
              /\ transactions' = out.transactions
              /\ processed_square_event_ids' = out.seen
              /\ receipt_items' = out.rows
              /\ SQUARE_ACCESS_TOKEN' = out.token
              /\ tasks' = [tasks EXCEPT ![k].pc = "done",
                                        ![k].response = out.response,
                                        ![k].overlap =
                                            {j \in Tasks \ {k} : tasks[j].pc \in {"body", "json"}}]
    /\ UNCHANGED <<square_oauth_tokens, SQUARE_WEBHOOK_SIGNATURE_KEY,
                   STRIPE_WEBHOOK_SECRET, now, request, response>>

\* the answer of the run is sent
TaskFinish(k) ==
    /\ tasks[k].pc = "done"
    /\ tasks' = [tasks EXCEPT ![k] = IdleTask]
    /\ UNCHANGED <<transactions, processed_square_event_ids, receipt_items,
                   SQUARE_ACCESS_TOKEN, square_oauth_tokens, SQUARE_WEBHOOK_SIGNATURE_KEY,
                   STRIPE_WEBHOOK_SECRET, now, request, response>>

Accept == \E k \in Tasks : TaskAccept(k)
ReadBody == \E k \in Tasks : TaskReadBody(k)
Run == \E k \in Tasks : TaskRun(k)
Finish == \E k \in Tasks : TaskFinish(k)

NextConcurrent == Accept \/ ReadBody \/ Run \/ Finish \/ SquareCallback \/ Respond

SpecConcurrent == Init /\ [][NextConcurrent]_vars

(* ------------------------------------------------------------------ *)
(* deliveries over time: the clock advances between requests and a      *)
(* second merchant connects                                             *)
(* ------------------------------------------------------------------ *)
\* the notifications of one sale of merchant M1
LaterEvents ==
    { [type |-> "payment.created", event_id |-> "e1",
       object |-> Obj(Payment("P1", "O1", None, Money("int", 1000, "usd")), NoneRec)],
      [type |-> "payment.updated", event_id |-> None,
       object |-> Obj(Payment("P1", "O1", None, Money("int", 1500, "usd")), NoneRec)],
      [type |-> "order.updated", event_id |-> "e2", object |-> Obj(NoneRec, [id |-> "O1"])] }

LaterPayloads == {SquarePayload(ev.type, ev.event_id, "M1", ev.object) : ev \in LaterEvents}

\* the merchants that complete the OAuth flow
ConnectedMerchants == {"M1", "M2"}

SquareWebhookLater ==
    Idle /\ \E payload \in LaterPayloads :
    \E provided \in SquareHeaders(payload) :
    \E api \in SquareApiChoices(payload, provided) :
        SquareDelivery(payload, provided, api, TRUE)

SquareCallbackLater ==
    Idle /\ \E m \in ConnectedMerchants : SquareCallbackFor(TokenResponse(m), TRUE)

NextLater == SquareWebhookLater \/ SquareCallbackLater \/ Tick \/ Respond

SpecLater == Init /\ [][NextLater]_vars

(* ------------------------------------------------------------------ *)
(* deliveries to square_webhook while the SQLite write can fail          *)
(* ------------------------------------------------------------------ *)
\* _db_write_tx commits, or raises (the database is locked, the disk is full)
DbOutcomes == {TRUE, FALSE}

NextFailing == SquareWebhookWith(DbOutcomes) \/ Respond

SpecFailing == Init /\ [][NextFailing]_vars

(* ------------------------------------------------------------------ *)
(* Properties                                                           *)
(* ------------------------------------------------------------------ *)
\* the step answers a delivery to the Square webhook
SquareStep == Idle /\ request'.op = "square_webhook"
\* the step answers a delivery to the Stripe webhook
StripeStep == Idle /\ request'.op = "stripe_webhook"

\* the Square delivery of the step passed the signature check and the dedupe
\* gate with a dict payload whose data.object is a dict
SquareProcessed ==
    /\ SquareStep
    /\ SignatureOk(request'.payload, request'.signature)
    /\ request'.payload # NoneRec
    /\ ~(/\ request'.payload.event_id # None
         /\ request'.payload.event_id \in processed_square_event_ids)
    /\ request'.payload.object.isdict

\* the receipts of the store with this merchant and payment_id
ReceiptsOf(txs, merchant, payment_id) ==
    {i \in 1..Len(txs) : txs[i].merchant = merchant /\ txs[i].payment_id = payment_id}

\* the Square receipts of the store linked to order_id
ReceiptsOfOrder(txs, order_id) ==
    {i \in 1..Len(txs) : txs[i].merchant = "square" /\ txs[i].meta.square_order_id = order_id}

\* C1: idempotence of delivery. A delivery of an event that was delivered
\* before leaves the receipt store as it was: a Square event whose event_id was
\* seen, and a Stripe checkout.session.completed event whose session already
\* has its receipt.
C1_RedeliveryChangesNothing ==
    [][ /\ (/\ SquareStep
            /\ response'.status = 200
            /\ request'.payload # NoneRec
            /\ request'.payload.event_id \in processed_square_event_ids)
           => transactions' = transactions
        /\ (/\ StripeStep
            /\ response'.status = 200
            /\ request'.event.type = "checkout.session.completed"
            /\ \E i \in 1..Len(transactions) :
                  /\ transactions[i].merchant = "stripe"
                  /\ transactions[i].meta.stripe_session = request'.event.object)
           => transactions' = transactions ]_vars

\* C2: no two receipts of the store share (merchant, payment_id).
C2_OneReceiptPerPayment ==
    \A i, j \in 1..Len(transactions) :
        (/\ transactions[i].merchant = transactions[j].merchant
         /\ transactions[i].payment_id = transactions[j].payment_id) => i = j

\* the step handles an order.updated event with an order id (an order-only
\* event: data.object holds the order and no payment)
OrderEventStep ==
    /\ SquareProcessed
    /\ request'.payload.type = "order.updated"
    /\ request'.payload.object.order # NoneRec
    /\ request'.payload.object.order.id # None

\* the smallest index of a non-empty set of indices
First(S) == CHOOSE i \in S : \A j \in S : i <= j

\* C4: an order-only event whose order id is linked to an existing Square
\* receipt updates a receipt of that order (the oldest one: it gets the event's
\* type and id), answers "updated_existing" and leaves the number of receipts
\* and every other receipt as they were; no delivery of an order.updated event
\* adds a receipt.
C4_OrderEventUpdatesLinkedReceipt ==
    [][ /\ (SquareStep /\ request'.payload # NoneRec /\ request'.payload.type = "order.updated")
           => Len(transactions') = Len(transactions)
        /\ (OrderEventStep /\ ReceiptsOfOrder(transactions, request'.payload.object.order.id) # {})
           => LET i == First(ReceiptsOfOrder(transactions, request'.payload.object.order.id))
              IN  /\ response' = Response(200, "updated_existing")
                  /\ transactions'[i].meta.square_event_type = "order.updated"
                  /\ transactions'[i].meta.square_event_id = request'.payload.event_id
                  /\ transactions'[i].meta.square_order_id = request'.payload.object.order.id
                  /\ transactions'[i].id = transactions[i].id
                  /\ \A j \in 1..Len(transactions) : j # i => transactions'[j] = transactions[j]
      ]_vars

\* C4 witness: an order.updated event for O1 was merged into a receipt that a
\* payment event had created.
C4_Witness ==
    /\ request.op = "square_webhook"
    /\ request.payload # NoneRec
    /\ request.payload.type = "order.updated"
    /\ response = Response(200, "updated_existing")
    /\ \E i \in 1..Len(transactions) :
          /\ transactions[i].merchant = "square"
          /\ transactions[i].meta.square_order_id = "O1"
          /\ transactions[i].meta.square_event_type = "order.updated"
          /\ transactions[i].meta.square_payment.id = "P1"

\* the items the order event of the step supplies: those of the order its
\* enrichment call fetched
SuppliedItems ==
    IF Truthy(SQUARE_ACCESS_TOKEN') /\ request'.api.order # NoneRec
    THEN _order_to_items(request'.api.order, request'.api.catalog)
    ELSE << >>

\* the receipt at index i is the one receipt of its payment, as its creation
\* event left it when the event carried a linked order and no items
AsCreatedWithoutItems(i, order_id) ==
    /\ transactions[i].merchant = "square"
    /\ ReceiptsOf(transactions, "square", transactions[i].payment_id) = {i}
    /\ transactions[i].items = << >>
    /\ transactions[i].meta.square_order_id = order_id
    /\ transactions[i].total = _money_to_float(transactions[i].meta.square_payment.amount_money)

\* after the order event: one receipt of the payment, with the supplied items,
\* the total and the id it had
ItemsArrived(i) ==
    /\ ReceiptsOf(transactions', "square", transactions[i].payment_id) = {i}
    /\ transactions'[i].items = SuppliedItems
    /\ transactions'[i].total = transactions[i].total
    /\ transactions'[i].id = transactions[i].id

\* C5 as stated: whenever the one receipt of a payment P is as created (total
\* T/100, linked order O, no items), an order event for O that supplies a
\* non-empty item list L leaves one receipt for P with items L, total T/100 and
\* the same id.
C5_Original ==
    [][ \A i \in 1..Len(transactions) :
          (/\ OrderEventStep
           /\ SuppliedItems # << >>
           /\ AsCreatedWithoutItems(i, request'.payload.object.order.id))
          => ItemsArrived(i) ]_vars

\* C5 as amended: the same, when no older receipt is linked to the order O.
C5_ItemsArriveOnOldestReceiptOfOrder ==
    [][ \A i \in 1..Len(transactions) :
          (/\ OrderEventStep
           /\ SuppliedItems # << >>
           /\ AsCreatedWithoutItems(i, request'.payload.object.order.id)
           /\ \A j \in 1..(i - 1) :
                 j \notin ReceiptsOfOrder(transactions, request'.payload.object.order.id))
          => ItemsArrived(i) ]_vars

\* C5 witness: the receipt of P1 (total 10.00, created without items, as its
\* placeholder row shows) holds the two items the order event for O1 supplied.
C5_Witness ==
    /\ request.op = "square_webhook"
    /\ request.payload # NoneRec
    /\ request.payload.type = "order.updated"
    /\ response = Response(200, "updated_existing")
    /\ \E i \in 1..Len(transactions) :
          /\ transactions[i].merchant = "square"
          /\ transactions[i].payment_id = "P1"
          /\ transactions[i].id = i
          /\ transactions[i].total = Dec(1000)
          /\ Len(transactions[i].items) = 2
          /\ transactions[i].items = _order_to_items(request.api.order, request.api.catalog)
          /\ transactions[i].meta.square_event_id = request.payload.event_id
          /\ \E r \in receipt_items :
                r.payment_id = "P1" /\ r.item_name = PlaceholderItem.name

\* C6: a receipt whose items are non-empty keeps non-empty items over every
\* step (and stays in the store).
C6_ItemsNeverCleared ==
    [][ \A i \in 1..Len(transactions) :
          transactions[i].items # << >>
          => (i <= Len(transactions') /\ transactions'[i].items # << >>) ]_vars

\* C6 witness: an order event whose enrichment failed (it brought no items) was
\* merged into a receipt that holds items.
C6_Witness ==
    /\ request.op = "square_webhook"
    /\ request.payload # NoneRec
    /\ request.payload.type = "order.updated"
    /\ request.api.order = NoneRec
    /\ response = Response(200, "updated_existing")
    /\ Truthy(SQUARE_ACCESS_TOKEN)
    /\ \E i \in 1..Len(transactions) :
          /\ transactions[i].merchant = "square"
          /\ transactions[i].meta.square_order_id = request.payload.object.order.id
          /\ transactions[i].meta.square_event_type = "order.updated"
          /\ transactions[i].meta.square_order = NoneRec
          /\ transactions[i].items # << >>

\* C7: a receipt whose total is > 0 keeps a total > 0 over every step.
C7_TotalNeverZeroed ==
    [][ \A i \in 1..Len(transactions) :
          Positive(transactions[i].total)
          => (i <= Len(transactions') /\ Positive(transactions'[i].total)) ]_vars

\* C7 witness: a payment event without an amount (incoming total 0) was merged
\* into a receipt whose total is 10.00.
C7_Witness ==
    /\ request.op = "square_webhook"
    /\ request.payload # NoneRec
    /\ request.payload.type = "payment.updated"
    /\ request.payload.object.payment # NoneRec
    /\ ~Positive(_money_to_float(request.payload.object.payment.amount_money))
    /\ response = Response(200, "updated_existing")
    /\ \E i \in 1..Len(transactions) :
          /\ transactions[i].merchant = "square"
          /\ transactions[i].payment_id = request.payload.object.payment.id
          /\ transactions[i].total = Dec(1000)

\* the delivery of the step has a missing or invalid signature while
\* verification is configured
BadSignatureStep ==
    \/ /\ SquareStep
       /\ Truthy(SQUARE_WEBHOOK_SIGNATURE_KEY)
       /\ request'.signature #
            _square_expected_signature(SQUARE_WEBHOOK_SIGNATURE_KEY, NotificationUrl,
                                       request'.payload)
    \/ /\ StripeStep
       /\ Truthy(STRIPE_WEBHOOK_SECRET)
       /\ request'.signature # <<STRIPE_WEBHOOK_SECRET, request'.event>>

\* C8: a delivery with a missing or invalid signature is answered with an
\* error (401 by Square's handler, 400 by Stripe's) and leaves the receipt
\* store, the dedupe ledger and the table as they were.
C8_BadSignatureRejected ==
    [][ BadSignatureStep
        => /\ response'.status \in {400, 401}
           /\ UNCHANGED <<transactions, processed_square_event_ids, receipt_items>> ]_vars

\* C8 witness: a Square delivery without a signature header was answered 401
\* and its event_id is not in the ledger, while the store holds a receipt.
C8_Witness ==
    /\ request.op = "square_webhook"
    /\ request.signature = << >>
    /\ request.payload # NoneRec
    /\ request.payload.event_id = "e1"
    /\ response.status = 401
    /\ "e1" \notin processed_square_event_ids
    /\ transactions # << >>

\* the order id of a receipt (None for a receipt that has none)
OrderIdOf(t) == IF t.merchant = "square" THEN t.meta.square_order_id ELSE None

\* C9: a payment_id or an order id that is not None stays not None.
C9_IdsNeverCleared ==
    [][ \A i \in 1..Len(transactions) :
          /\ i <= Len(transactions')
          /\ transactions[i].payment_id # None => transactions'[i].payment_id # None
          /\ OrderIdOf(transactions[i]) # None => OrderIdOf(transactions'[i]) # None ]_vars

\* C9 witness: a payment event that carries no order id was merged into a
\* receipt that is linked to an order.
C9_Witness ==
    /\ request.op = "square_webhook"
    /\ request.payload # NoneRec
    /\ request.payload.object.payment # NoneRec
    /\ request.payload.object.payment.order_id = None
    /\ request.payload.object.payment.associated_order_id = None
    /\ response = Response(200, "updated_existing")
    /\ \E i \in 1..Len(transactions) :
          /\ transactions[i].merchant = "square"
          /\ transactions[i].payment_id = request.payload.object.payment.id
          /\ transactions[i].meta.square_event_type = "payment.updated"
          /\ transactions[i].meta.square_order_id \in OrderIds

\* C10: an order id that is not None is never replaced by another value.
C10_OrderIdSetOnce ==
    [][ \A i \in 1..Len(transactions) :
          OrderIdOf(transactions[i]) # None
          => (i <= Len(transactions')
              /\ OrderIdOf(transactions'[i]) = OrderIdOf(transactions[i])) ]_vars

\* the run has returned from handling a verified payment event of payment P
\* that carries an event id
HandledPaymentOf(t, P) ==
    /\ t.pc = "done"
    /\ t.payload.type \in {"payment.created", "payment.updated"}
    /\ t.payload.event_id # None
    /\ SignatureOk(t.payload, t.signature)
    /\ t.payload.object.payment # NoneRec
    /\ t.payload.object.payment.id = P

\* C3: when two runs of square_webhook, interleaved in any way at their
\* awaits, have handled payment events of the same payment P with different
\* event ids, they did not both create a receipt and the store holds exactly
\* one receipt of P.
C3_ConcurrentCreationsMakeOneReceipt ==
    \A j, k \in Tasks : \A P \in {"P1", "P2"} :
        (/\ j # k
         /\ HandledPaymentOf(tasks[j], P)
         /\ HandledPaymentOf(tasks[k], P)
         /\ tasks[j].payload.event_id # tasks[k].payload.event_id)
        => /\ Cardinality(ReceiptsOf(transactions, "square", P)) = 1
           /\ ~(tasks[j].response.body = "created" /\ tasks[k].response.body = "created")

\* C3 witness: both runs have handled their event of P1; t2 was suspended at an
\* await when t1 created the receipt, and then merged into it.
C3_Witness ==
    /\ HandledPaymentOf(tasks["t1"], "P1")
    /\ HandledPaymentOf(tasks["t2"], "P1")
    /\ tasks["t1"].payload.event_id # tasks["t2"].payload.event_id
    /\ tasks["t1"].overlap = {"t2"}
    /\ tasks["t1"].response = Response(200, "created")
    /\ tasks["t2"].response = Response(200, "updated_existing")
    /\ Cardinality(ReceiptsOf(transactions, "square", "P1")) = 1

\* the step merges a payment event into the receipt it found by payment_id
PaymentMergeStep ==
    /\ SquareProcessed
    /\ request'.payload.type \in {"payment.created", "payment.updated"}
    /\ request'.payload.object.payment # NoneRec
    /\ _find_square_tx_by_payment_id(transactions,
                                     PyOr(request'.payload.object.payment.id, "")) # 0

\* the receipt a payment merge step merges into
MergedInto ==
    _find_square_tx_by_payment_id(transactions, PyOr(request'.payload.object.payment.id, ""))

\* the total the payment event of the step carries
IncomingTotal == _money_to_float(request'.payload.object.payment.amount_money)

\* C11: total merge rule. After a payment event merges into a receipt, the
\* receipt's total is the incoming total when that is > 0 and the previous
\* total otherwise.
C11_TotalMergeRule ==
    [][ PaymentMergeStep
        => transactions'[MergedInto].total =
              IF Positive(IncomingTotal) THEN IncomingTotal
              ELSE transactions[MergedInto].total ]_vars

\* C12: timestamp merge rule. After a payment event merges into a receipt, the
\* receipt's timestamp is the timestamp of the event (the time the handler
\* took for it).
C12_TimestampMergeRule ==
    [][ PaymentMergeStep => transactions'[MergedInto].timestamp = now ]_vars

\* the order detail the event of the step supplies: what its enrichment call
\* fetched (NoneRec: nothing)
SuppliedOrder ==
    IF Truthy(SQUARE_ACCESS_TOKEN') THEN request'.api.order ELSE NoneRec

\* the meta keys a payment event supplies, as lines 555-561 build them
IncomingPaymentMeta ==
    [square_event_type |-> request'.payload.type,
     square_event_id |-> request'.payload.event_id,
     square_order_id |-> PyOr(request'.payload.object.payment.order_id,
                              request'.payload.object.payment.associated_order_id),
     square_payment |-> request'.payload.object.payment,
     square_order |-> SuppliedOrder]

\* the meta keys an order event supplies
IncomingOrderMeta ==
    [square_event_type |-> request'.payload.type,
     square_event_id |-> request'.payload.event_id,
     square_order_id |-> request'.payload.object.order.id,
     square_order |-> SuppliedOrder]

\* the meta key k holds a value (its dicts are records here, its ids strings)
HasValue(k, v) == IF k \in {"square_payment", "square_order"} THEN v # NoneRec ELSE v # None

\* meta is the shallow merge of incoming into old: a key that incoming supplies
\* (with a value) has the incoming value, every other key has its old value
ShallowMerged(old, incoming, meta) ==
    /\ DOMAIN meta = DOMAIN old \cup DOMAIN incoming
    /\ \A k \in DOMAIN meta :
          meta[k] = IF k \in DOMAIN incoming /\ HasValue(k, incoming[k])
                    THEN incoming[k] ELSE old[k]

\* C13: meta shallow merge. After a payment event or an order event merges
\* into a receipt, each meta key the event supplies has the incoming value and
\* every other meta key of the receipt has its previous value.
C13_MetaShallowMerge ==
    [][ /\ PaymentMergeStep
           => ShallowMerged(transactions[MergedInto].meta, IncomingPaymentMeta,
                            transactions'[MergedInto].meta)
        /\ (OrderEventStep /\ ReceiptsOfOrder(transactions, request'.payload.object.order.id) # {})
           => LET i == First(ReceiptsOfOrder(transactions, request'.payload.object.order.id))
              IN  ShallowMerged(transactions[i].meta, IncomingOrderMeta, transactions'[i].meta)
      ]_vars

\* the Square receipts of the store
SquareReceipts(txs) == {i \in 1..Len(txs) : txs[i].merchant = "square"}

\* the largest index of a non-empty set of indices
Last(S) == CHOOSE i \in S : \A j \in S : j <= i

\* C14: matcher fallback. An order-only event whose order id is linked to no
\* receipt, handled while the store holds a Square receipt, is merged into the
\* most recently created Square receipt (which gets the event's type and id),
\* and no receipt is added.
C14_OrderEventFallsBackToNewest ==
    [][ (/\ OrderEventStep
         /\ ReceiptsOfOrder(transactions, request'.payload.object.order.id) = {}
         /\ SquareReceipts(transactions) # {})
        => LET i == Last(SquareReceipts(transactions))
           IN  /\ Len(transactions') = Len(transactions)
               /\ transactions'[i].meta.square_event_type = "order.updated"
               /\ transactions'[i].meta.square_event_id = request'.payload.event_id ]_vars

\* C15: creation by order event. An order event with an order id, handled
\* while the store holds no Square receipt (no rule of the matcher finds one),
\* adds a receipt linked to that order id.
C15_OrderEventCreates ==
    [][ (OrderEventStep /\ SquareReceipts(transactions) = {})
        => /\ Len(transactions') = Len(transactions) + 1
           /\ transactions'[Len(transactions')].merchant = "square"
           /\ transactions'[Len(transactions')].meta.square_order_id =
                 request'.payload.object.order.id ]_vars

\* the delivery of the step is verified and its event kind is not consumed
IgnorableStep ==
    \/ /\ SquareStep
       /\ SignatureOk(request'.payload, request'.signature)
       /\ request'.payload # NoneRec
       /\ request'.payload.type \notin {"payment.created", "payment.updated", "order.updated"}
    \/ /\ StripeStep
       /\ Truthy(STRIPE_WEBHOOK_SECRET)
       /\ ConstructEventOk(request'.event, request'.signature)
       /\ request'.event.type # "checkout.session.completed"

\* C16: a verified delivery of an event kind that is not consumed is answered
\* with success and leaves the receipt store, the dedupe ledger and the table
\* as they were.
C16_IgnorableHasNoEffect ==
    [][ IgnorableStep
        => /\ response'.status = 200
           /\ UNCHANGED <<transactions, processed_square_event_ids, receipt_items>> ]_vars

\* the delivery of the step is verified and carries an event_id that is in
\* the dedupe ledger
SeenEventStep ==
    /\ SquareStep
    /\ SignatureOk(request'.payload, request'.signature)
    /\ request'.payload # NoneRec
    /\ request'.payload.event_id # None
    /\ request'.payload.event_id \in processed_square_event_ids

\* C17: a delivery whose event_id is already in the dedupe ledger is answered
\* as deduplicated, makes no enrichment call and leaves the receipt store, the
\* ledger, the table and the access token of the enrichment calls as they were.
C17_DedupedHasNoSideEffect ==
    [][ SeenEventStep
        => /\ response' = Response(200, "deduped_event")
           /\ request'.api = NoEnrichment
           /\ UNCHANGED <<transactions, processed_square_event_ids, receipt_items,
                          SQUARE_ACCESS_TOKEN>> ]_vars

\* the step handles a verified Square payment event, or an order event linked
\* to a receipt, whose enrichment call gave no order (it failed, or no token
\* is set)
SquareUnenrichedStep ==
    /\ \/ /\ SquareProcessed
          /\ request'.payload.type \in {"payment.created", "payment.updated"}
          /\ request'.payload.object.payment # NoneRec
       \/ /\ OrderEventStep
          /\ ReceiptsOfOrder(transactions, request'.payload.object.order.id) # {}
    /\ SuppliedOrder = NoneRec

\* the step handles a verified checkout.session.completed event whose
\* line-item fetch raised
StripeUnenrichedStep ==
    /\ StripeStep
    /\ Truthy(STRIPE_WEBHOOK_SECRET)
    /\ ConstructEventOk(request'.event, request'.signature)
    /\ request'.event.type = "checkout.session.completed"
    /\ request'.line_items = "raise"

\* C18: enrichment degradation. When the enrichment call of a creation-capable
\* or matching event fails or has no credentials, the handler still creates or
\* updates the receipt from the event's own fields and answers with success.
C18_EnrichmentFailureDegrades ==
    [][ /\ SquareUnenrichedStep
           => /\ response'.status = 200
              /\ response'.body \in {"created", "updated_existing"}
              /\ \E i \in SquareReceipts(transactions') :
                    /\ transactions'[i].meta.square_event_type = request'.payload.type
                    /\ transactions'[i].meta.square_event_id = request'.payload.event_id
        /\ StripeUnenrichedStep
           => /\ response'.status = 200
              /\ Len(transactions') = Len(transactions) + 1
              /\ transactions'[Len(transactions')].payment_id =
                    request'.event.object.payment_intent ]_vars

\* the rows of the table that belong to the receipt tx (the key _db_write_tx
\* deletes by)
RowsOf(rows, tx) ==
    {r \in rows : /\ r.user_id = PyOr(tx.user_id, "demo_user")
                  /\ r.merchant = tx.merchant
                  /\ r.payment_id = PyOr(tx.payment_id, "")}

\* the item columns of a row, with the position of its line item
ItemColumns(r) ==
    [sku |-> r.sku, item_name |-> r.item_name, quantity |-> r.quantity,
     unit_price |-> r.unit_price, n |-> r.n]

\* one row per line item of tx, a single placeholder row when it has none
ExpectedItemRows(tx) ==
    LET items == IF tx.items = << >> THEN << PlaceholderItem >> ELSE tx.items
    IN  {[sku |-> items[k].sku, item_name |-> items[k].name, quantity |-> items[k].quantity,
          unit_price |-> items[k].unit_price, n |-> k] : k \in 1..Len(items)}

\* the rows stored for tx are exactly the rows of its items
Projected(rows, tx) == {ItemColumns(r) : r \in RowsOf(rows, tx)} = ExpectedItemRows(tx)

\* C19: projection consistency. After every step that creates a receipt or
\* changes a receipt's items, the rows stored for that receipt are exactly one
\* row per line item of its items (a single placeholder row when it has none).
C19_ProjectionFollowsItems ==
    [][ \A i \in 1..Len(transactions') :
          (i > Len(transactions) \/ transactions'[i].items # transactions[i].items)
          => Projected(receipt_items', transactions'[i]) ]_vars

\* C20: the receipt store is append-only. No step removes or reorders
\* receipts, the id and the merchant of a receipt never change, and no two
\* receipts of the store have the same id.
C20_StoreIsAppendOnly ==
    [][ /\ Len(transactions') >= Len(transactions)
        /\ \A i \in 1..Len(transactions) :
              /\ transactions'[i].id = transactions[i].id
              /\ transactions'[i].merchant = transactions[i].merchant
        /\ \A i, j \in 1..Len(transactions') :
              transactions'[i].id = transactions'[j].id => i = j ]_vars

\* C20 witness: a query is answered from a store of two receipts, a Stripe one
\* and a Square one that an order event was merged into.
C20_Witness ==
    /\ request.op = "get_transactions"
    /\ response.status = 200
    /\ Len(response.body) = 1
    /\ Len(transactions) = 2
    /\ \E i, j \in 1..2 :
          /\ transactions[i].merchant = "stripe"
          /\ transactions[j].merchant = "square"
          /\ transactions[j].meta.square_event_type = "order.updated"
          /\ transactions[i].id # transactions[j].id

\* a verified delivery of payload whose enrichment calls meet api, handled on st
Delivered(st, payload, api) ==
    SquareHandler(st, payload,
                  _square_expected_signature(SQUARE_WEBHOOK_SIGNATURE_KEY, NotificationUrl,
                                             payload),
                  api, TRUE)

\* the order a payment event links its payment to
LinkedOrder(payload) ==
    PyOr(payload.object.payment.order_id, payload.object.payment.associated_order_id)

\* pp is a payment event and po an order event of the same order, with event
\* ids of their own that the ledger does not hold
SamePurchase(pp, po) ==
    /\ pp # NoneRec /\ po # NoneRec
    /\ pp.object.isdict /\ po.object.isdict
    /\ pp.type \in {"payment.created", "payment.updated"}
    /\ pp.object.payment # NoneRec
    /\ Truthy(pp.object.payment.id)
    /\ po.type = "order.updated"
    /\ po.object.order # NoneRec
    /\ Truthy(po.object.order.id)
    /\ LinkedOrder(pp) = po.object.order.id
    /\ pp.event_id # None /\ po.event_id # None /\ pp.event_id # po.event_id
    /\ pp.event_id \notin processed_square_event_ids
    /\ po.event_id \notin processed_square_event_ids

\* the canonical fields of the Square receipts of payment_id in txs
Canonical(txs, payment_id) ==
    {[payment_id |-> txs[i].payment_id, order_id |-> txs[i].meta.square_order_id,
      total |-> txs[i].total, currency |-> txs[i].currency, items |-> txs[i].items] :
        i \in ReceiptsOf(txs, "square", payment_id)}

\* C21: order independence. In a state whose store holds no receipt of payment
\* P and none linked to order O, a payment event for P linked to O and an order
\* event for O, each with a fixed enrichment outcome, leave one receipt of P
\* with the same canonical fields (payment_id, order_id, total, currency, items)
\* whichever is delivered first.
C21_OrderIndependence ==
    \A pp, po \in SquarePayloads :
        (/\ SamePurchase(pp, po)
         /\ ReceiptsOf(transactions, "square", pp.object.payment.id) = {}
         /\ ReceiptsOfOrder(transactions, po.object.order.id) = {})
        => \A ap \in ApiChoices(LinkedOrder(pp), SelectToken(Current, pp)) :
           \A ao \in ApiChoices(po.object.order.id, SelectToken(Current, po)) :
              LET PaymentFirst == Delivered(Delivered(Current, pp, ap), po, ao)
                  OrderFirst == Delivered(Delivered(Current, po, ao), pp, ap)
              IN  /\ Cardinality(Canonical(PaymentFirst.transactions, pp.object.payment.id)) = 1
                  /\ Canonical(PaymentFirst.transactions, pp.object.payment.id)
                        = Canonical(OrderFirst.transactions, pp.object.payment.id)

\* the step is a run of the backfill
BackfillStep == Idle /\ request'.op = "square_backfill"

\* the Square receipts of user_id that are newer than receipt i
NewerOfUser(txs, i, user_id) ==
    {j \in (i + 1)..Len(txs) : txs[j].merchant = "square" /\ txs[j].user_id = user_id}

\* C22: backfill frame. A backfill run for user U with limit L adds and removes
\* no receipt; a receipt it changes is a Square receipt of U among the L newest
\* ones, with a linked order id, that missed items or stored order detail, and
\* only its items and meta.square_order change; the ledger, the table and the
\* token are unchanged.
C22_BackfillFrame ==
    [][ BackfillStep
        => /\ Len(transactions') = Len(transactions)
           /\ UNCHANGED <<processed_square_event_ids, receipt_items, SQUARE_ACCESS_TOKEN>>
           /\ \A i \in 1..Len(transactions) :
                 transactions'[i] # transactions[i]
                 => /\ transactions[i].merchant = "square"
                    /\ transactions[i].user_id = request'.user_id
                    /\ transactions[i].meta.square_order_id # None
                    /\ (transactions[i].items = << >>
                        \/ transactions[i].meta.square_order = NoneRec)
                    /\ Cardinality(NewerOfUser(transactions, i, request'.user_id))
                          < request'.limit
                    /\ [transactions'[i] EXCEPT
                          !.items = transactions[i].items,
                          !.meta = [@ EXCEPT !.square_order = transactions[i].meta.square_order]]
                       = transactions[i] ]_vars

\* C22 witness: a run with limit 1 stored the fetched order on the newest
\* Square receipt and left the older one, which misses its items too, alone.
C22_Witness ==
    /\ request.op = "square_backfill"
    /\ request.limit = 1
    /\ response.status = 200
    /\ Len(transactions) = 2
    /\ request.apis[2].order # NoneRec
    /\ transactions[2].meta.square_order = request.apis[2].order
    /\ transactions[2].items # << >>
    /\ transactions[1].merchant = "square"
    /\ transactions[1].user_id = request.user_id
    /\ transactions[1].meta.square_order_id # None
    /\ transactions[1].items = << >>

\* the step is a verified Square delivery that fails after the dedupe gate:
\* it is answered with a server error
FailedDeliveryStep ==
    /\ SquareProcessed
    /\ response'.status >= 500

\* C23: atomicity on failure. A Square payment delivery that fails after the
\* dedupe gate (the table write raises) leaves the receipt store and the
\* dedupe ledger as they were before it.
C23_FailedDeliveryChangesNothing ==
    [][ FailedDeliveryStep
        => UNCHANGED <<transactions, processed_square_event_ids>> ]_vars

\* the order detail stored on a receipt (NoneRec: none)
StoredOrderOf(t) == IF t.merchant = "square" THEN t.meta.square_order ELSE NoneRec

\* C24: stored order detail is never lost. A receipt whose meta.square_order
\* holds a fetched order holds one after every step.
C24_StoredOrderNeverLost ==
    [][ \A i \in 1..Len(transactions) :
          StoredOrderOf(transactions[i]) # NoneRec
          => (i <= Len(transactions') /\ StoredOrderOf(transactions'[i]) # NoneRec) ]_vars

====
